---- MODULE Spec2Model ----
(***************************************************************************)
(* A model of benchmark_pddl.py: the File Classifier (is_problem_file,     *)
(* find_problem_files), the Domain Resolver (find_domain_file_for_problem),*)
(* the Benchmark Runner (run_benchmark) and the Corpus Walker / Result     *)
(* Sink (main).                                                            *)
(*                                                                         *)
(* File names, declared domain names and planner output are sequences of   *)
(* one-character strings, so that glob matching, the regular expressions   *)
(* and the sort key are computed the way the code computes them.           *)
(***************************************************************************)
EXTENDS Integers, Sequences, FiniteSets, TLC

(***************************************************************************)
(* Text                                                                    *)
(***************************************************************************)

\* The characters the model's texts are written in, in code point order.
Alphabet ==
  << " ", "*", "-", ".", "0", "1", "2", "3", "4", "5", "6", "7", "8", "9", ":",
     "B", "G", "N", "P",
     "a", "b", "c", "d", "e", "f", "g", "h", "i", "k", "l", "m", "n", "o", "p",
     "r", "s", "t", "u", "w", "x" >>

Digits == << "0", "1", "2", "3", "4", "5", "6", "7", "8", "9" >>

Ord(c) == CHOOSE i \in 1..Len(Alphabet) : Alphabet[i] = c

IsDigit(c) == \E i \in 1..Len(Digits) : Digits[i] = c

DigitValue(c) == (CHOOSE i \in 1..Len(Digits) : Digits[i] = c) - 1

\* str.lower() on one character
LowerChar(c) ==
  CASE c = "B" -> "b"
    [] c = "G" -> "g"
    [] c = "N" -> "n"
    [] c = "P" -> "p"
    [] OTHER -> c

Lower(s) == [i \in 1..Len(s) |-> LowerChar(s[i])]

\* s[i:] starts with sub (i is 1-based)
StartsWithAt(s, sub, i) ==
  /\ i + Len(sub) - 1 <= Len(s)
  /\ \A j \in 1..Len(sub) : s[i + j - 1] = sub[j]

\* `sub in s`
Contains(s, sub) == \E i \in 1..(Len(s) + 1) : StartsWithAt(s, sub, i)

\* s.replace(old, "") for a non-empty old
RECURSIVE Remove(_, _)
Remove(s, old) ==
  IF s = << >> THEN << >>
  ELSE IF StartsWithAt(s, old, 1)
       THEN Remove(SubSeq(s, Len(old) + 1, Len(s)), old)
       ELSE << Head(s) >> \o Remove(Tail(s), old)

\* str < str: code point order, a proper prefix first
RECURSIVE StrLess(_, _)
StrLess(a, b) ==
  IF b = << >> THEN FALSE
  ELSE IF a = << >> THEN TRUE
  ELSE IF Head(a) = Head(b) THEN StrLess(Tail(a), Tail(b))
  ELSE Ord(Head(a)) < Ord(Head(b))

\* the longest run of digits at the head of s
RECURSIVE DigitRun(_)
DigitRun(s) ==
  IF s = << >> \/ ~IsDigit(Head(s)) THEN << >>
  ELSE << Head(s) >> \o DigitRun(Tail(s))

\* int() of a string of decimal digits (Python integers do not overflow)
RECURSIVE IntOf(_)
IntOf(ds) ==
  IF ds = << >> THEN 0
  ELSE 10 * IntOf(SubSeq(ds, 1, Len(ds) - 1)) + DigitValue(ds[Len(ds)])

\* the first match of \d+ in s, << >> when there is none
RECURSIVE FirstNumber(_)
FirstNumber(s) ==
  IF s = << >> THEN << >>
  ELSE IF IsDigit(Head(s)) THEN DigitRun(s)
  ELSE FirstNumber(Tail(s))

\* fnmatch of a name against a pattern in which "*" matches any run
RECURSIVE FnMatch(_, _)
FnMatch(s, p) ==
  IF p = << >> THEN s = << >>
  ELSE IF Head(p) = "*"
       THEN FnMatch(s, Tail(p)) \/ (s # << >> /\ FnMatch(Tail(s), p))
       ELSE s # << >> /\ Head(s) = Head(p) /\ FnMatch(Tail(s), Tail(p))

Ext == << ".", "p", "d", "d", "l" >>

(***************************************************************************)
(* Files                                                                   *)
(***************************************************************************)

\* Words that occur in file names, directory names and PDDL declarations.
W_blocksworld == << "b", "l", "o", "c", "k", "s", "w", "o", "r", "l", "d" >>
W_blockworld == << "b", "l", "o", "c", "k", "w", "o", "r", "l", "d" >>
W_domain == << "d", "o", "m", "a", "i", "n" >>
W_gripper == << "g", "r", "i", "p", "p", "e", "r" >>
W_ops == << "o", "p", "s" >>
W_task == << "t", "a", "s", "k" >>
W_pb == << "p", "b" >>
W_d == << "d" >>

\* What the code looks at in a file's text:
\*   readable  open() and read() succeed
\*   decl      the name captured by the first match of \(:domain\s+([^)]+)\),
\*             stripped; << >> when there is no match
\*   goal      where "(:goal" first occurs: "none", "prefix" (within the first
\*             2000 characters) or "late"
\*   define    "(define" occurs in the first 2000 characters
\*   problem   "problem" occurs in the first 2000 characters
\*   action    ":action" occurs
ProblemText(decl) ==
  [readable |-> TRUE, decl |-> decl, goal |-> "prefix", define |-> TRUE,
   problem |-> TRUE, action |-> FALSE]

DomainText ==
  [readable |-> TRUE, decl |-> << >>, goal |-> "none", define |-> TRUE,
   problem |-> FALSE, action |-> TRUE]

OtherText ==
  [readable |-> TRUE, decl |-> << >>, goal |-> "none", define |-> FALSE,
   problem |-> FALSE, action |-> FALSE]

Unreadable ==
  [readable |-> FALSE, decl |-> << >>, goal |-> "none", define |-> FALSE,
   problem |-> FALSE, action |-> FALSE]

\* A directory listing is a sequence of entries [name, text] in the order
\* the operating system lists them; a path is [where, name] with where the
\* problem's directory ("dir") or the directory above it ("parent").
NoPath == [where |-> "none", name |-> << >>]

Path(where, name) == [where |-> where, name |-> name]

Names(listing) == [i \in 1..Len(listing) |-> listing[i].name]

Exists(listing, name) == \E i \in 1..Len(listing) : listing[i].name = name

TextOf(listing, name) ==
  listing[CHOOSE i \in 1..Len(listing) : listing[i].name = name].text

HasMagic(pattern) == \E i \in 1..Len(pattern) : pattern[i] = "*"

\* glob.glob(os.path.join(directory, pattern)): the names of the listing that
\* match, in listing order; a wildcard does not match a leading dot.
Glob(listing, pattern) ==
  SelectSeq(Names(listing),
            LAMBDA n : /\ FnMatch(n, pattern)
                       /\ (HasMagic(pattern) /\ n # << >> /\ Head(n) = ".")
                            => Head(pattern) = ".")

\* The first match of the (:domain ...) pattern in a file, << >> for None.
read_domain_name_from_file(listing, name) ==
  IF Exists(listing, name) /\ TextOf(listing, name).readable
  THEN TextOf(listing, name).decl
  ELSE << >>

\* Variants without its elif branch
VariantsOneWay(domain_name) ==
  IF domain_name = << >> THEN << >>
  ELSE IF domain_name = W_blocksworld THEN << domain_name, W_blockworld >>
  ELSE << domain_name >>

\* lines 124-128: the declared name and its blocksworld/blockworld variant
Variants(domain_name) ==
  IF domain_name = << >> THEN << >>
  ELSE IF domain_name = W_blocksworld THEN << domain_name, W_blockworld >>
  ELSE IF domain_name = W_blockworld THEN << domain_name, W_blocksworld >>
  ELSE << domain_name >>

\* Patterns with the directory's own name tried before the wildcards
PatternsBaseSecond(base, domain_name) ==
  << W_domain \o Ext >>
  \o (IF domain_name # << >> THEN << domain_name \o Ext >> ELSE << >>)
  \o << base \o Ext,
        << "*" >> \o W_domain \o << "*" >> \o Ext,
        << "*", "." >> \o W_domain \o Ext >>

\* lines 137-146: the conventional file names, None filtered out
Patterns(base, domain_name) ==
  << W_domain \o Ext >>
  \o (IF domain_name # << >> THEN << domain_name \o Ext >> ELSE << >>)
  \o << << "*" >> \o W_domain \o << "*" >> \o Ext,
        << "*", "." >> \o W_domain \o Ext,
        base \o Ext >>

\* lines 149-152 and 169-172: candidates[0] of the first pattern that matches
FirstGlob(listing, patterns) ==
  LET hits == SelectSeq(patterns, LAMBDA p : Glob(listing, p) # << >>)
  IN  IF hits = << >> THEN << >> ELSE Head(Glob(listing, Head(hits)))

\* lines 155-165: the first other .pddl file with ":action" and no "(:goal"
LooksLikeDomain(listing, problem_name) ==
  SelectSeq(Glob(listing, << "*" >> \o Ext),
            LAMBDA n : /\ n # problem_name
                       /\ TextOf(listing, n).readable
                       /\ TextOf(listing, n).action
                       /\ TextOf(listing, n).goal = "none")

\* find_domain_file_for_problem with the conventional names tried before
\* the declared name
PatternsFirst(d, problem_name) ==
  LET domain_name == read_domain_name_from_file(d.listing, problem_name)
      byVariant == SelectSeq(Variants(domain_name),
                             LAMBDA v : Exists(d.listing, v \o Ext))
      patterns == Patterns(d.base, domain_name)
      byPattern == FirstGlob(d.listing, patterns)
      byContent == LooksLikeDomain(d.listing, problem_name)
      byParent == FirstGlob(d.parent, patterns)
  IN  IF byPattern # << >> THEN Path("dir", byPattern)
      ELSE IF byVariant # << >> THEN Path("dir", Head(byVariant) \o Ext)
      ELSE IF byContent # << >> THEN Path("dir", Head(byContent))
      ELSE IF byParent # << >> THEN Path("parent", byParent)
      ELSE NoPath

\* d = [base, listing, parent]: the problem's directory, its basename and
\* the listing of the directory above it.
find_domain_file_for_problem(d, problem_name) ==
  LET domain_name == read_domain_name_from_file(d.listing, problem_name)
      byVariant == SelectSeq(Variants(domain_name),
                             LAMBDA v : Exists(d.listing, v \o Ext))
      patterns == Patterns(d.base, domain_name)
      byPattern == FirstGlob(d.listing, patterns)
      byContent == LooksLikeDomain(d.listing, problem_name)
      byParent == FirstGlob(d.parent, patterns)
  IN  IF byVariant # << >> THEN Path("dir", Head(byVariant) \o Ext)
      ELSE IF byPattern # << >> THEN Path("dir", byPattern)
      ELSE IF byContent # << >> THEN Path("dir", Head(byContent))
      ELSE IF byParent # << >> THEN Path("parent", byParent)
      ELSE NoPath

(***************************************************************************)
(* Benchmark Runner                                                        *)
(***************************************************************************)

T_GoalReached ==
  << "G", "o", "a", "l", " ", "r", "e", "a", "c", "h", "e", "d" >>
T_NodesExpanded ==
  << " ", "N", "o", "d", "e", "s", " ", "e", "x", "p", "a", "n", "d", "e", "d" >>
T_PlanLength ==
  << "P", "l", "a", "n", " ", "l", "e", "n", "g", "t", "h", ":", " " >>
T_timeout == << "t", "i", "m", "e", "o", "u", "t" >>
T_error == << "e", "r", "r", "o", "r", ":", " " >>

\* A metric is an integer or a string (a sentinel).
IntMetric(n) == [isInt |-> TRUE, n |-> n, s |-> << >>]
StrMetric(s) == [isInt |-> FALSE, n |-> 0, s |-> s]

\* re.search(r"(\d+) Nodes expanded", text): group 1 of the leftmost match,
\* << >> when there is none.  \d+ is greedy and what follows it is no digit,
\* so a match at a position takes the whole run of digits there.
RECURSIVE NodesMatch(_)
NodesMatch(text) ==
  IF text = << >> THEN << >>
  ELSE LET run == DigitRun(text)
       IN  IF run # << >> /\ StartsWithAt(text, T_NodesExpanded, Len(run) + 1)
           THEN run
           ELSE NodesMatch(Tail(text))

\* re.search(r"Plan length: (\d+)", text): group 1 of the leftmost match
RECURSIVE LengthMatch(_)
LengthMatch(text) ==
  IF text = << >> THEN << >>
  ELSE LET run == DigitRun(SubSeq(text, Len(T_PlanLength) + 1, Len(text)))
       IN  IF StartsWithAt(text, T_PlanLength, 1) /\ run # << >>
           THEN run
           ELSE LengthMatch(Tail(text))

\* line 52
GoalReached(stdout) == Contains(stdout, T_GoalReached)

\* ExpandedNodes with the pattern (\d+) alone
AnyNumber(stdout) ==
  IF FirstNumber(stdout) # << >> THEN IntOf(FirstNumber(stdout)) ELSE 0

\* lines 54-61
ExpandedNodes(stdout) ==
  IF NodesMatch(stdout) # << >> THEN IntOf(NodesMatch(stdout)) ELSE 0

\* lines 55-66
PlanLength(stdout) ==
  IF LengthMatch(stdout) # << >> THEN IntOf(LengthMatch(stdout)) ELSE 0

\* os.path.basename(path).replace(".pddl", "")
Label(name) == Remove(name, Ext)

\* The planner's output is a sequence of lines, each ended by a newline:
\* the goal marker, a node count, a plan length (either possibly without
\* its number) or some other text.
Line(kind, digits) == [kind |-> kind, digits |-> digits]

RenderLine(l) ==
  (CASE l.kind = "goal" -> T_GoalReached
     [] l.kind = "nodes" -> l.digits \o T_NodesExpanded
     [] l.kind = "length" -> T_PlanLength \o l.digits
     [] OTHER -> << "x" >>) \o << "\n" >>

RECURSIVE Render(_)
Render(lines) ==
  IF lines = << >> THEN << >>
  ELSE RenderLine(Head(lines)) \o Render(Tail(lines))

\* What subprocess.run did: kind "exit" (the process ended by itself; lines
\* is what it wrote to stdout), "timeout" (TimeoutExpired) or "raise" (any
\* other exception, str(e) = msg); elapsed is time.time() - start_time.
Outcome(kind, lines, stderr, returncode, msg, elapsed) ==
  [kind |-> kind, lines |-> lines, stderr |-> stderr,
   returncode |-> returncode, msg |-> msg, elapsed |-> elapsed]

NoOutcome == Outcome("none", << >>, << >>, 0, << >>, 0)

\* run_benchmark whose timeout branch sets only expanded_nodes
TimeoutHalfSet(domain_name, problem_name, search, heuristic, o) ==
  [domain |-> Label(domain_name), problem |-> Label(problem_name),
   search |-> IF search # "" THEN search ELSE "breadth_first_search",
   heuristic |-> IF heuristic # "" THEN heuristic ELSE "None",
   runtime |-> o.elapsed,
   success |-> o.kind = "exit" /\ GoalReached(Render(o.lines)),
   expanded_nodes |->
     IF o.kind = "exit" THEN IntMetric(ExpandedNodes(Render(o.lines)))
     ELSE IF o.kind = "timeout" THEN StrMetric(T_timeout)
     ELSE StrMetric(T_error \o o.msg),
   plan_length |->
     IF o.kind = "exit" THEN IntMetric(PlanLength(Render(o.lines)))
     ELSE IF o.kind = "timeout" THEN IntMetric(0)
     ELSE StrMetric(T_error \o o.msg)]

\* run_benchmark that takes success from the exit code
SuccessByExitCode(domain_name, problem_name, search, heuristic, o) ==
  [domain |-> Label(domain_name), problem |-> Label(problem_name),
   search |-> IF search # "" THEN search ELSE "breadth_first_search",
   heuristic |-> IF heuristic # "" THEN heuristic ELSE "None",
   runtime |-> o.elapsed,
   success |-> o.kind = "exit" /\ o.returncode = 0,
   expanded_nodes |->
     IF o.kind = "exit" THEN IntMetric(ExpandedNodes(Render(o.lines)))
     ELSE IF o.kind = "timeout" THEN StrMetric(T_timeout)
     ELSE StrMetric(T_error \o o.msg),
   plan_length |->
     IF o.kind = "exit" THEN IntMetric(PlanLength(Render(o.lines)))
     ELSE IF o.kind = "timeout" THEN StrMetric(T_timeout)
     ELSE StrMetric(T_error \o o.msg)]

\* lines 23-94: the record run_benchmark returns for an outcome of the call
run_benchmark(domain_name, problem_name, search, heuristic, o) ==
  LET common == [domain |-> Label(domain_name),
                 problem |-> Label(problem_name),
                 search |-> IF search # "" THEN search
                            ELSE "breadth_first_search",
                 heuristic |-> IF heuristic # "" THEN heuristic ELSE "None",
                 runtime |-> o.elapsed]
  IN  IF o.kind = "exit"
      THEN common @@ [success |-> GoalReached(Render(o.lines)),
                      expanded_nodes |-> IntMetric(ExpandedNodes(Render(o.lines))),
                      plan_length |-> IntMetric(PlanLength(Render(o.lines)))]
      ELSE IF o.kind = "timeout"
      THEN common @@ [success |-> FALSE,
                      expanded_nodes |-> StrMetric(T_timeout),
                      plan_length |-> StrMetric(T_timeout)]
      ELSE common @@ [success |-> FALSE,
                      expanded_nodes |-> StrMetric(T_error \o o.msg),
                      plan_length |-> StrMetric(T_error \o o.msg)]

\* AliveAfter for a call that leaves a timed-out child running
AbandonedOnTimeout(alive, o) == IF o.kind = "timeout" THEN alive ELSE alive - 1

\* subprocess.run (lines 38-43) returns or raises only once the child is
\* gone: it waits for the exit, and on TimeoutExpired or any other exception
\* it kills the child and waits for it.  The number of children left alive:
AliveAfter(alive, o) == alive - 1

(***************************************************************************)
(* File Classifier and problem order                                       *)
(***************************************************************************)

\* is_problem_file that reads the whole file
WholeFileRead(listing, name) ==
  LET text == TextOf(listing, name)
  IN  text.readable /\ text.goal # "none" /\ text.define /\ text.problem

\* lines 176-186
is_problem_file(listing, name) ==
  LET text == TextOf(listing, name)
  IN  text.readable /\ text.goal = "prefix" /\ text.define /\ text.problem

\* lines 190-202
find_problem_files(listing) ==
  SelectSeq(Glob(listing, << "*" >> \o Ext),
            LAMBDA n : is_problem_file(listing, n))

\* lines 261-266: an int when the file name holds digits, else the name
problem_sort_key(name) ==
  IF FirstNumber(name) # << >>
  THEN [isInt |-> TRUE, n |-> IntOf(FirstNumber(name)), s |-> << >>]
  ELSE [isInt |-> FALSE, n |-> 0, s |-> name]

\* a < b for two keys of one type
KeyLess(a, b) == IF a.isInt THEN a.n < b.n ELSE StrLess(a.s, b.s)

\* list.sort compares keys with <, and int < str raises TypeError: a list
\* of two or more names sorts only when all keys have one type.
SortRaises(names) ==
  \E i, j \in 1..Len(names) :
    problem_sort_key(names[i]).isInt # problem_sort_key(names[j]).isInt

\* x placed after the elements that are not greater than it (stable)
RECURSIVE InsertByKey(_, _)
InsertByKey(sorted, x) ==
  IF sorted = << >> THEN << x >>
  ELSE IF KeyLess(problem_sort_key(x), problem_sort_key(Head(sorted)))
       THEN << x >> \o sorted
       ELSE << Head(sorted) >> \o InsertByKey(Tail(sorted), x)

\* SortProblems that leaves the glob order
Unsorted(names) == names

\* line 268: problem_files.sort(key=problem_sort_key), when it does not raise
RECURSIVE SortProblems(_)
SortProblems(names) ==
  IF names = << >> THEN << >>
  ELSE InsertByKey(SortProblems(SubSeq(names, 1, Len(names) - 1)),
                   names[Len(names)])

\* Truncate that keeps every problem file
NoLimit(names, max_problems) == names

\* line 271: problem_files[:max_problems] for max_problems >= 0
Truncate(names, max_problems) ==
  SubSeq(names, 1, IF max_problems < Len(names) THEN max_problems
                   ELSE Len(names))

(***************************************************************************)
(* Corpus Walker and Result Sink: main                                     *)
(***************************************************************************)

VARIABLES
  args,          \* the parsed command line
  tree,          \* the benchmark directory and what is around it
  pc,            \* where main is
  domain_dirs,   \* the directories to walk: [base, listing, parent]
  di,            \* index of domain_dir in domain_dirs
  problem_files, \* the sorted, truncated problem files of domain_dir
  pi,            \* index of problem_file in problem_files
  domain_file,   \* the resolved domain file of problem_file
  si,            \* index of search in args.searches
  hi,            \* index of heuristic in args.heuristics
  results,       \* the records appended so far
  alive,         \* planner processes started and not yet waited for
  outcome,       \* what the last call of subprocess.run did
  csv,           \* the output file
  exc            \* the exception that ended main, "" for none

vars ==
  << args, tree, pc, domain_dirs, di, problem_files, pi, domain_file, si, hi,
     results, alive, outcome, csv, exc >>

\* lines 47-56: the keys of a record, in insertion order
FieldNames ==
  << "domain", "problem", "search", "heuristic", "success", "runtime",
     "expanded_nodes", "plan_length" >>

\* lines 74-83: the keys of the dict the TimeoutExpired handler returns
TimeoutFieldNames ==
  << "domain", "problem", "search", "heuristic", "success", "runtime",
     "expanded_nodes", "plan_length" >>

\* lines 85-94: the keys of the dict the Exception handler returns
ErrorFieldNames ==
  << "domain", "problem", "search", "heuristic", "success", "runtime",
     "expanded_nodes", "plan_length" >>

\* Keys with "success" and "runtime" exchanged in the timeout dict
KeysTimeoutReordered(r) ==
  IF r.expanded_nodes.isInt THEN FieldNames
  ELSE IF r.expanded_nodes.s = T_timeout
       THEN << "domain", "problem", "search", "heuristic", "runtime",
               "success", "expanded_nodes", "plan_length" >>
       ELSE ErrorFieldNames

\* r.keys(): the keys of a record in insertion order, which is that of the
\* dict literal that made it; the literal is known from expanded_nodes, an
\* int in the first, "timeout" in the second, "error: ..." in the third
Keys(r) ==
  IF r.expanded_nodes.isInt THEN FieldNames
  ELSE IF r.expanded_nodes.s = T_timeout THEN TimeoutFieldNames
       ELSE ErrorFieldNames

Range(f) == { f[i] : i \in DOMAIN f }

NoCsv == [written |-> FALSE, header |-> << >>, rows |-> << >>]

Entry(name, text) == [name |-> name, text |-> text]

\* the sequences of at most n entries of E with distinct names
Listings(E, n) ==
  { l \in UNION { [1..k -> E] : k \in 0..n } :
      \A i, j \in 1..Len(l) : l[i].name = l[j].name => i = j }

\* the sequences of at most k directories named in B, with listings over E
\* that hold at most n files in all
RECURSIVE DirSeqs(_, _, _, _)
DirSeqs(B, E, k, n) ==
  IF k = 0 THEN { << >> }
  ELSE { << >> } \cup
       UNION { { << [name |-> b, listing |-> l] >> \o rest :
                   rest \in DirSeqs(B \ {b}, E, k - 1, n - Len(l)) } :
               b \in B, l \in Listings(E, n) }

\* The bounds of the walked corpus.
MaxFiles == 4
MaxDirs == 2

W_Block == << "B", "l", "o", "c", "k" >>

WalkEntries ==
  { Entry(W_pb \o << "2" >> \o Ext, ProblemText(<< >>)),
    Entry(W_pb \o << "1", "0" >> \o Ext, ProblemText(W_blocksworld)),
    Entry(W_task \o Ext, ProblemText(W_gripper)),
    Entry(W_blockworld \o Ext, DomainText) }

WalkAbove == { << >>, << Entry(W_blockworld \o Ext, DomainText) >> }

WalkDirNames == { W_blockworld, W_d }

\* a benchmark directory that holds .pddl files itself, or one that holds
\* only directories, or a path that is no directory
WalkTrees ==
  { [isdir |-> TRUE, base |-> b, files |-> l, above |-> a, subdirs |-> << >>] :
      b \in { W_d },
      l \in Listings(WalkEntries, MaxFiles) \ { << >> },
      a \in WalkAbove }
  \cup
  { [isdir |-> TRUE, base |-> W_d, files |-> << >>, above |-> << >>,
     subdirs |-> s] :
      s \in DirSeqs(WalkDirNames, WalkEntries, MaxDirs, MaxFiles) }
  \cup
  { [isdir |-> FALSE, base |-> W_d, files |-> << >>, above |-> << >>,
     subdirs |-> << >>] }

\* the command lines of the walked batches
WalkArgs ==
  { [searches |-> << "astar", "gbf" >>, heuristics |-> << "blind", "hmax" >>,
     test_invalid |-> FALSE, max_problems |-> 1, domains |-> << W_Block >>],
    [searches |-> << "gbf", "astar" >>, heuristics |-> << "blind" >>,
     test_invalid |-> TRUE, max_problems |-> 1, domains |-> << >>],
    [searches |-> << "gbf" >>, heuristics |-> << "hmax", "blind" >>,
     test_invalid |-> FALSE, max_problems |-> 2, domains |-> << >>] }

Init ==
  /\ args \in WalkArgs
  /\ tree \in WalkTrees
  /\ pc = "start"
  /\ domain_dirs = << >>
  /\ di = 1
  /\ problem_files = << >>
  /\ pi = 1
  /\ domain_file = NoPath
  /\ si = 1
  /\ hi = 1
  /\ results = << >>
  /\ alive = 0
  /\ outcome = NoOutcome
  /\ csv = NoCsv
  /\ exc = ""

EndsWith(s, suffix) ==
  Len(s) >= Len(suffix) /\ StartsWithAt(s, suffix, Len(s) - Len(suffix) + 1)

\* lines 227-242: the benchmark directory itself when it holds a .pddl
\* file, else its subdirectories that are not hidden and pass --domains
DomainDirs(t, domains) ==
  IF \E i \in 1..Len(t.files) : EndsWith(t.files[i].name, Ext)
  THEN << [base |-> t.base, listing |-> t.files, parent |-> t.above] >>
  ELSE LET shown == SelectSeq(t.subdirs, LAMBDA d : Head(d.name) # ".")
           kept == IF domains = << >> THEN shown
                   ELSE SelectSeq(shown,
                          LAMBDA d : \E k \in 1..Len(domains) :
                            Contains(Lower(d.name), Lower(domains[k])))
       IN  [i \in 1..Len(kept) |->
              [base |-> kept[i].name, listing |-> kept[i].listing,
               parent |-> t.files]]

\* lines 227-247
Discover ==
  /\ pc = "start"
  /\ tree.isdir
  /\ domain_dirs' = DomainDirs(tree, args.domains)
  /\ pc' = "dir"
  /\ UNCHANGED << args, tree, di, problem_files, pi, domain_file, si, hi,
                  results, alive, outcome, csv, exc >>

\* lines 243-245: not a directory, main returns
NotADirectory ==
  /\ pc = "start"
  /\ ~tree.isdir
  /\ pc' = "done"
  /\ UNCHANGED << args, tree, domain_dirs, di, problem_files, pi, domain_file,
                  si, hi, results, alive, outcome, csv, exc >>

\* lines 249-258: a directory without problem files is passed over
EmptyDir ==
  /\ pc = "dir"
  /\ di <= Len(domain_dirs)
  /\ find_problem_files(domain_dirs[di].listing) = << >>
  /\ di' = di + 1
  /\ UNCHANGED << args, tree, pc, domain_dirs, problem_files, pi, domain_file,
                  si, hi, results, alive, outcome, csv, exc >>

\* lines 249-273: the problem files of the directory, sorted and truncated
EnterDir ==
  /\ pc = "dir"
  /\ di <= Len(domain_dirs)
  /\ LET found == find_problem_files(domain_dirs[di].listing)
     IN  /\ found # << >>
         /\ ~SortRaises(found)
         /\ problem_files' = Truncate(SortProblems(found), args.max_problems)
  /\ pi' = 1
  /\ pc' = "problem"
  /\ UNCHANGED << args, tree, domain_dirs, di, domain_file, si, hi, results,
                  alive, outcome, csv, exc >>

\* line 268: the sort raises TypeError, which nothing catches
SortCrash ==
  /\ pc = "dir"
  /\ di <= Len(domain_dirs)
  /\ LET found == find_problem_files(domain_dirs[di].listing)
     IN  found # << >> /\ SortRaises(found)
  /\ pc' = "crashed"
  /\ exc' = "TypeError"
  /\ UNCHANGED << args, tree, domain_dirs, di, problem_files, pi, domain_file,
                  si, hi, results, alive, outcome, csv >>

\* line 275: the problems of the directory are exhausted
LeaveDir ==
  /\ pc = "problem"
  /\ pi > Len(problem_files)
  /\ di' = di + 1
  /\ pc' = "dir"
  /\ UNCHANGED << args, tree, domain_dirs, problem_files, pi, domain_file, si,
                  hi, results, alive, outcome, csv, exc >>

\* lines 277-314: the domain file is found
BeginProblem ==
  /\ pc = "problem"
  /\ pi <= Len(problem_files)
  /\ find_domain_file_for_problem(domain_dirs[di], problem_files[pi]) # NoPath
  /\ domain_file' =
       find_domain_file_for_problem(domain_dirs[di], problem_files[pi])
  /\ si' = 1
  /\ hi' = 1
  /\ pc' = "combo"
  /\ UNCHANGED << args, tree, domain_dirs, di, problem_files, pi, results,
                  alive, outcome, csv, exc >>

\* lines 279-299: no domain file, and the problem does not declare
\* blocksworld: a warning, and the next problem
SkipProblem ==
  /\ pc = "problem"
  /\ pi <= Len(problem_files)
  /\ find_domain_file_for_problem(domain_dirs[di], problem_files[pi]) = NoPath
  /\ read_domain_name_from_file(domain_dirs[di].listing, problem_files[pi])
       # W_blocksworld
  /\ domain_file' = NoPath
  /\ pi' = pi + 1
  /\ UNCHANGED << args, tree, pc, domain_dirs, di, problem_files, si, hi,
                  results, alive, outcome, csv, exc >>

\* The unresolved branch with problem_dir bound to the directory above the
\* problem's: blockworld.pddl is found there, copied to blocksworld.pddl
\* next to the problem, and the problem is passed over (line 299)
CopiedFromAbove ==
  /\ pc = "problem"
  /\ pi <= Len(problem_files)
  /\ find_domain_file_for_problem(domain_dirs[di], problem_files[pi]) = NoPath
  /\ read_domain_name_from_file(domain_dirs[di].listing, problem_files[pi])
       = W_blocksworld
  /\ domain_file' = NoPath
  /\ IF Exists(domain_dirs[di].parent, W_blockworld \o Ext)
     THEN tree' = [tree EXCEPT !.files =
                     Append(@, Entry(W_blocksworld \o Ext, DomainText))]
     ELSE tree' = tree
  /\ pi' = pi + 1
  /\ UNCHANGED << args, pc, domain_dirs, di, problem_files, si, hi, results,
                  alive, outcome, csv, exc >>

\* lines 279-282: no domain file, and the problem declares blocksworld: the
\* right operand of `and` reads problem_dir, a name main never binds, and
\* the NameError ends main (lines 283-293 are never reached)
ProblemDirCrash ==
  /\ pc = "problem"
  /\ pi <= Len(problem_files)
  /\ find_domain_file_for_problem(domain_dirs[di], problem_files[pi]) = NoPath
  /\ read_domain_name_from_file(domain_dirs[di].listing, problem_files[pi])
       = W_blocksworld
  /\ domain_file' = NoPath
  /\ pc' = "crashed"
  /\ exc' = "NameError"
  /\ UNCHANGED << args, tree, domain_dirs, di, problem_files, pi, si, hi,
                  results, alive, outcome, csv >>

\* Skipped that does not look at --test-invalid
SkippedWhateverTheFlag(test_invalid, search, heuristic) ==
  heuristic = "blind" /\ search # "astar"

\* line 213: the default of --timeout, in seconds
TimeoutSeconds == 5

\* lines 319-321: the combination is passed over
Skipped(test_invalid, search, heuristic) ==
  ~test_invalid /\ heuristic = "blind" /\ search # "astar"

\* lines 316-317: the indices of the next iteration of the two loops
NextSi == IF hi < Len(args.heuristics) THEN si ELSE si + 1
NextHi == IF hi < Len(args.heuristics) THEN hi + 1 ELSE 1

\* lines 316-321
SkipInvalid ==
  /\ pc = "combo"
  /\ si <= Len(args.searches)
  /\ Skipped(args.test_invalid, args.searches[si], args.heuristics[hi])
  /\ si' = NextSi
  /\ hi' = NextHi
  /\ UNCHANGED << args, tree, pc, domain_dirs, di, problem_files, pi,
                  domain_file, results, alive, outcome, csv, exc >>

\* lines 316-331 and 25-43: run_benchmark is called and subprocess.run
\* starts the planner
StartRun ==
  /\ pc = "combo"
  /\ si <= Len(args.searches)
  /\ ~Skipped(args.test_invalid, args.searches[si], args.heuristics[hi])
  /\ alive' = alive + 1
  /\ pc' = "running"
  /\ UNCHANGED << args, tree, domain_dirs, di, problem_files, pi, domain_file,
                  si, hi, results, outcome, csv, exc >>

\* FinishRun that stays at the combination after a timeout and runs it
\* again
RetriedOnTimeout(outcomes) ==
  /\ pc = "running"
  /\ \E o \in outcomes :
       /\ outcome' = o
       /\ results' = Append(results,
                            run_benchmark(domain_file.name, problem_files[pi],
                                          args.searches[si],
                                          args.heuristics[hi], o))
       /\ alive' = AliveAfter(alive, o)
       /\ si' = IF o.kind = "timeout" THEN si ELSE NextSi
       /\ hi' = IF o.kind = "timeout" THEN hi ELSE NextHi
  /\ pc' = "combo"
  /\ UNCHANGED << args, tree, domain_dirs, di, problem_files, pi, domain_file,
                  csv, exc >>

\* lines 38-94 and 332: subprocess.run returns or raises, run_benchmark
\* returns its record and main appends it
FinishRun(outcomes) ==
  /\ pc = "running"
  /\ \E o \in outcomes :
       /\ outcome' = o
       /\ results' = Append(results,
                            run_benchmark(domain_file.name, problem_files[pi],
                                          args.searches[si],
                                          args.heuristics[hi], o))
       /\ alive' = AliveAfter(alive, o)
  /\ si' = NextSi
  /\ hi' = NextHi
  /\ pc' = "combo"
  /\ UNCHANGED << args, tree, domain_dirs, di, problem_files, pi, domain_file,
                  csv, exc >>

\* line 316: the searches are exhausted, the next problem
EndProblem ==
  /\ pc = "combo"
  /\ si > Len(args.searches)
  /\ pi' = pi + 1
  /\ pc' = "problem"
  /\ UNCHANGED << args, tree, domain_dirs, di, problem_files, domain_file, si,
                  hi, results, alive, outcome, csv, exc >>

\* lines 350-355: DictWriter takes its columns from the keys of the first
\* record and writes the header and then the records; a record with a key
\* that is no column raises ValueError after the rows before it were written
Persist ==
  /\ pc = "dir"
  /\ di > Len(domain_dirs)
  /\ results # << >>
  /\ LET fieldnames == Keys(results[1])
         extra == { i \in 1..Len(results) :
                      ~(DOMAIN results[i] \subseteq Range(fieldnames)) }
     IN  IF extra = { }
         THEN /\ csv' = [written |-> TRUE, header |-> fieldnames,
                         rows |-> results]
              /\ pc' = "done"
              /\ exc' = exc
         ELSE /\ csv' = [written |-> TRUE, header |-> fieldnames,
                         rows |-> SubSeq(results, 1,
                                         (CHOOSE i \in extra :
                                            \A j \in extra : i <= j) - 1)]
              /\ pc' = "crashed"
              /\ exc' = "ValueError"
  /\ UNCHANGED << args, tree, domain_dirs, di, problem_files, pi, domain_file,
                  si, hi, results, alive, outcome >>

\* lines 375-376: no record, no file
NothingToPersist ==
  /\ pc = "dir"
  /\ di > Len(domain_dirs)
  /\ results = << >>
  /\ pc' = "done"
  /\ UNCHANGED << args, tree, domain_dirs, di, problem_files, pi, domain_file,
                  si, hi, results, alive, outcome, csv, exc >>

\* What the planner does in a walked batch: it ends with a plan, it runs
\* into the timeout, or it cannot be started.
WalkOutcomes ==
  { Outcome("exit",
            << Line("goal", << >>), Line("nodes", << "4", "2" >>),
               Line("length", << "7" >>) >>, << >>, 0, << >>, 1),
    Outcome("timeout", << >>, << >>, 0, << >>, TimeoutSeconds),
    Outcome("raise", << >>, << >>, 0, << "x" >>, 0) }

Next ==
  \/ Discover
  \/ NotADirectory
  \/ EmptyDir
  \/ EnterDir
  \/ SortCrash
  \/ LeaveDir
  \/ BeginProblem
  \/ SkipProblem
  \/ ProblemDirCrash
  \/ SkipInvalid
  \/ StartRun
  \/ FinishRun(WalkOutcomes)
  \/ EndProblem
  \/ Persist
  \/ NothingToPersist

Spec == Init /\ [][Next]_vars

(***************************************************************************)
(* run_benchmark on its own: one call, any planner output                  *)
(***************************************************************************)

MaxLines == 3

RunLines ==
  { Line("goal", << >>),
    Line("nodes", << "4", "2" >>),
    Line("nodes", << "0", "0", "7" >>),
    Line("nodes", << >>),
    Line("length", << "7" >>),
    Line("length", << "1", "0" >>),
    Line("text", << >>) }

RunOutcomes ==
  { Outcome("exit", l, e, r, << >>, 1) :
      l \in UNION { [1..k -> RunLines] : k \in 0..MaxLines },
      e \in { << >>, T_GoalReached },
      r \in { 0, 1 } }
  \cup { Outcome("timeout", << >>, << >>, 0, << >>, TimeoutSeconds) }
  \cup { Outcome("raise", << >>, << >>, 0, m, 0) : m \in { << >>, << "x" >> } }

NoTree ==
  [isdir |-> TRUE, base |-> W_d, files |-> << >>, above |-> << >>,
   subdirs |-> << >>]

\* main is about to call run_benchmark(domain_file, problem_file, search,
\* heuristic); "" stands for a search or heuristic that is None
InitRun ==
  /\ args \in { [searches |-> << s >>, heuristics |-> << h >>,
                  test_invalid |-> TRUE, max_problems |-> 1,
                  domains |-> << >>] :
                   s \in { "gbf", "" }, h \in { "blind", "" } }
  /\ tree = NoTree
  /\ pc = "combo"
  /\ domain_dirs = << >>
  /\ di = 1
  /\ problem_files = << W_pb \o Ext \o << "2" >> \o Ext >>
  /\ pi = 1
  /\ domain_file = Path("dir", W_blockworld \o Ext)
  /\ si = 1
  /\ hi = 1
  /\ results = << >>
  /\ alive = 0
  /\ outcome = NoOutcome
  /\ csv = NoCsv
  /\ exc = ""

NextRun ==
  \/ StartRun
  \/ FinishRun(RunOutcomes)

SpecRun == InitRun /\ [][NextRun]_vars

(***************************************************************************)
(* find_domain_file_for_problem on its own: one problem, any directory     *)
(***************************************************************************)

MaxDirFiles == 3

W_xdomain == << "x", "." >> \o W_domain
W_pb1 == W_pb \o << "1" >>

ResolveProblems ==
  { Entry(W_pb1 \o Ext, ProblemText(n)) :
      n \in { << >>, W_blocksworld, W_blockworld, W_gripper } }

ResolveOthers ==
  { Entry(n \o Ext, DomainText) :
      n \in { W_blocksworld, W_blockworld, W_gripper, W_domain, W_xdomain,
              W_d } }
  \cup { Entry(W_ops \o Ext, t) : t \in { DomainText, Unreadable } }

\* what the directory above holds
ResolveParents ==
  { << >>,
    << Entry(W_blockworld \o Ext, DomainText) >>,
    << Entry(W_gripper \o Ext, DomainText) >>,
    << Entry(W_xdomain \o Ext, DomainText),
       Entry(W_domain \o Ext, DomainText) >> }

ResolveDirs ==
  { [base |-> b, listing |-> l, parent |-> p] :
      b \in { W_d, W_blockworld },
      l \in { l \in Listings(ResolveProblems \cup ResolveOthers, MaxDirFiles) :
                \E i \in 1..Len(l) : l[i] \in ResolveProblems },
      p \in ResolveParents }

\* main is about to call find_domain_file_for_problem(problem_file)
InitResolve ==
  /\ args \in { a \in WalkArgs : a.max_problems = 1 /\ a.test_invalid }
  /\ tree = NoTree
  /\ pc = "problem"
  /\ domain_dirs \in { << d >> : d \in ResolveDirs }
  /\ di = 1
  /\ problem_files = << W_pb1 \o Ext >>
  /\ pi = 1
  /\ domain_file = NoPath
  /\ si = 1
  /\ hi = 1
  /\ results = << >>
  /\ alive = 0
  /\ outcome = NoOutcome
  /\ csv = NoCsv
  /\ exc = ""

NextResolve ==
  \/ BeginProblem
  \/ SkipProblem
  \/ ProblemDirCrash

SpecResolve == InitResolve /\ [][NextResolve]_vars

(***************************************************************************)
(* find_domain_file_for_problem for problem files of any name              *)
(***************************************************************************)

MaxNamedFiles == 2

\* problem files named after the declared domain, after the directory, and
\* with "domain" in the name, besides pb1.pddl
NamedProblems ==
  { Entry(W_blocksworld \o Ext, ProblemText(W_blocksworld)),
    Entry(W_d \o Ext, ProblemText(<< >>)),
    Entry(W_xdomain \o Ext, ProblemText(W_gripper)),
    Entry(W_pb1 \o Ext, ProblemText(<< >>)),
    Entry(W_pb1 \o Ext, ProblemText(W_blocksworld)) }

NamedOthers ==
  { Entry(n \o Ext, DomainText) : n \in { W_blockworld, W_domain, W_ops } }

\* main is about to call find_domain_file_for_problem for one of the
\* problem files of a directory d
InitNamed ==
  /\ args \in { a \in WalkArgs : a.max_problems = 1 /\ a.test_invalid }
  /\ tree = NoTree
  /\ pc = "problem"
  /\ \E l \in Listings(NamedProblems \cup NamedOthers, MaxNamedFiles),
        a \in { << >>, << Entry(W_gripper \o Ext, DomainText) >> } :
       \E i \in 1..Len(l) :
         /\ l[i] \in NamedProblems
         /\ domain_dirs = << [base |-> W_d, listing |-> l, parent |-> a] >>
         /\ problem_files = << l[i].name >>
  /\ di = 1
  /\ pi = 1
  /\ domain_file = NoPath
  /\ si = 1
  /\ hi = 1
  /\ results = << >>
  /\ alive = 0
  /\ outcome = NoOutcome
  /\ csv = NoCsv
  /\ exc = ""

SpecNamed == InitNamed /\ [][NextResolve]_vars

(***************************************************************************)
(* find_problem_files on its own: one directory, any files                 *)
(***************************************************************************)

MaxClassFiles == 3

W_pb2 == W_pb \o << "2" >>

\* a problem whose "(:goal" comes after the first 2000 characters, a text
\* with "(:goal" and "problem" but no "(define", and one with "(:goal" and
\* "(define" but no "problem"
LateGoalText ==
  [readable |-> TRUE, decl |-> << >>, goal |-> "late", define |-> TRUE,
   problem |-> TRUE, action |-> FALSE]

NoDefineText ==
  [readable |-> TRUE, decl |-> << >>, goal |-> "prefix", define |-> FALSE,
   problem |-> TRUE, action |-> FALSE]

NoProblemText ==
  [readable |-> TRUE, decl |-> << >>, goal |-> "prefix", define |-> TRUE,
   problem |-> FALSE, action |-> FALSE]

ClassifyEntries ==
  { Entry(n \o Ext, t) :
      n \in { W_pb1, W_pb2, W_task },
      t \in { ProblemText(<< >>), LateGoalText, NoDefineText, NoProblemText,
              DomainText, Unreadable } }
  \cup { Entry(W_pb \o << ".", "t", "x", "t" >>, ProblemText(<< >>)) }

\* main is about to call find_problem_files(domain_dir)
InitClassify ==
  /\ args \in WalkArgs
  /\ tree = NoTree
  /\ pc = "dir"
  /\ domain_dirs \in
       { << [base |-> W_d, listing |-> l, parent |-> << >>] >> :
           l \in Listings(ClassifyEntries, MaxClassFiles) }
  /\ di = 1
  /\ problem_files = << >>
  /\ pi = 1
  /\ domain_file = NoPath
  /\ si = 1
  /\ hi = 1
  /\ results = << >>
  /\ alive = 0
  /\ outcome = NoOutcome
  /\ csv = NoCsv
  /\ exc = ""

NextClassify ==
  \/ EmptyDir
  \/ EnterDir
  \/ SortCrash

SpecClassify == InitClassify /\ [][NextClassify]_vars

(***************************************************************************)
(* run_benchmark twice with the same arguments                             *)
(***************************************************************************)

MaxRepeatLines == 2

RepeatLines ==
  { Line("goal", << >>), Line("nodes", << "4", "2" >>),
    Line("length", << "7" >>) }

\* what the planner does in each of the two calls: the exit code, stderr and
\* the time taken are free
RepeatOutcomes ==
  { Outcome("exit", l, << >>, r, << >>, t) :
      l \in UNION { [1..k -> RepeatLines] : k \in 0..MaxRepeatLines },
      r \in { 0, 1 },
      t \in { 1, 2 } }
  \cup { Outcome("timeout", << >>, << >>, 0, << >>, TimeoutSeconds) }
  \cup { Outcome("raise", << >>, << >>, 0, << "x" >>, 0) }

\* main is about to call run_benchmark twice for one problem: the search
\* is given twice on the command line
InitRepeat ==
  /\ args \in { [searches |-> << s, s >>, heuristics |-> << "hmax" >>,
                  test_invalid |-> FALSE, max_problems |-> 1,
                  domains |-> << >>] : s \in { "gbf", "" } }
  /\ tree = NoTree
  /\ pc = "combo"
  /\ domain_dirs = << >>
  /\ di = 1
  /\ problem_files = << W_pb2 \o Ext >>
  /\ pi = 1
  /\ domain_file = Path("dir", W_domain \o Ext)
  /\ si = 1
  /\ hi = 1
  /\ results = << >>
  /\ alive = 0
  /\ outcome = NoOutcome
  /\ csv = NoCsv
  /\ exc = ""

NextRepeat ==
  \/ StartRun
  \/ FinishRun(RepeatOutcomes)

SpecRepeat == InitRepeat /\ [][NextRepeat]_vars

(***************************************************************************)
(* Properties                                                              *)
(***************************************************************************)

\* main is at `for problem_file in problem_files` with a problem whose
\* domain file find_domain_file_for_problem does not find
AtUnresolvedProblem ==
  /\ pc = "problem"
  /\ pi <= Len(problem_files)
  /\ find_domain_file_for_problem(domain_dirs[di], problem_files[pi]) = NoPath

\* C1: a problem whose domain file cannot be resolved is skipped, whatever
\* domain name it declares: no record is produced for it, no exception ends
\* the batch, and the walk goes on with the next problem.
C1_UnresolvedProblemIsSkipped ==
  [][AtUnresolvedProblem =>
       /\ pc' = "problem"
       /\ pi' = pi + 1
       /\ results' = results
       /\ exc' = ""]_vars

\* main is at `for domain_dir in domain_dirs` with a directory that holds
\* problem files
AtDirWithProblems ==
  /\ pc = "dir"
  /\ di <= Len(domain_dirs)
  /\ find_problem_files(domain_dirs[di].listing) # << >>

\* names is in the order of the first number in each name, and of the names
\* themselves where there is no number
InProblemOrder(names) ==
  \A i, j \in 1..Len(names) :
    i < j =>
      LET a == FirstNumber(names[i])
          b == FirstNumber(names[j])
      IN  /\ (a # << >> /\ b # << >>) => IntOf(a) <= IntOf(b)
          /\ (a = << >> /\ b = << >>) => ~StrLess(names[j], names[i])

\* C7: the ordering step completes for any set of problem file names, also
\* one that mixes names with and without digits, and leaves the problem files
\* in the order of their first number, names without digits in lexical order.
C7_OrderingCompletes ==
  [][AtDirWithProblems =>
       /\ pc' = "problem"
       /\ exc' = ""
       /\ InProblemOrder(problem_files')]_vars

\* find_domain_file_for_problem has been called for problem_files[1] of
\* domain_dirs[1], and domain_file is what it returned
ResolverReturned == pc \in { "combo", "crashed" } \/ pi > 1

\* the name the problem file declares, << >> for none
Declared == TextOf(domain_dirs[1].listing, problem_files[1]).decl

InDir(name) == Exists(domain_dirs[1].listing, name \o Ext)

InParent(name) == Exists(domain_dirs[1].parent, name \o Ext)

\* C4: a problem that declares (:domain X) next to a file X.pddl resolves to
\* exactly that file, whatever else its directory and the parent hold.
C4_DeclaredNameWins ==
  (ResolverReturned /\ Declared # << >> /\ InDir(Declared))
    => domain_file = Path("dir", Declared \o Ext)

\* a declared gripper resolves to gripper.pddl although domain.pddl is there
C4_Witness ==
  /\ pc = "combo"
  /\ Declared = W_gripper
  /\ InDir(W_gripper)
  /\ InDir(W_domain)
  /\ domain_file = Path("dir", W_gripper \o Ext)

\* C5: with exactly one of blocksworld.pddl and blockworld.pddl in the
\* problem's directory, a problem declaring either name resolves to the one
\* that exists.
C5_SynonymsBothWays ==
  (/\ ResolverReturned
   /\ Declared \in { W_blocksworld, W_blockworld }
   /\ InDir(W_blocksworld) # InDir(W_blockworld))
    => domain_file = Path("dir", (IF InDir(W_blocksworld) THEN W_blocksworld
                                  ELSE W_blockworld) \o Ext)

\* blockworld is declared, only blocksworld.pddl exists and is returned,
\* although domain.pddl is there too
C5_Witness ==
  /\ pc = "combo"
  /\ Declared = W_blockworld
  /\ InDir(W_blocksworld)
  /\ ~InDir(W_blockworld)
  /\ InDir(W_domain)
  /\ domain_file = Path("dir", W_blocksworld \o Ext)

\* C6: when nothing in the problem's own directory resolves, the parent
\* directory is tried with the declared name and each of its synonyms as
\* well as with the conventional names: a problem whose declared name or
\* synonym names a file of the parent resolves to a file of the parent.
C6_ParentTriesSynonyms ==
  (/\ ResolverReturned
   /\ domain_file.where # "dir"
   /\ \E i \in 1..Len(Variants(Declared)) : InParent(Variants(Declared)[i]))
    => domain_file.where = "parent"

\* the three outcome classes of a record
NormalRecord(r) == r.expanded_nodes.isInt /\ r.plan_length.isInt

TimeoutRecord(r) ==
  /\ ~r.success
  /\ r.expanded_nodes = StrMetric(T_timeout)
  /\ r.plan_length = StrMetric(T_timeout)

ErrorRecord(r) ==
  /\ ~r.success
  /\ ~r.expanded_nodes.isInt
  /\ StartsWithAt(r.expanded_nodes.s, T_error, 1)
  /\ r.plan_length = r.expanded_nodes

ClassesOf(r) ==
  { c \in { "normal", "timeout", "error" } :
      \/ c = "normal" /\ NormalRecord(r)
      \/ c = "timeout" /\ TimeoutRecord(r)
      \/ c = "error" /\ ErrorRecord(r) }

\* the record of the last call: outcome is what subprocess.run did in it
LastRecord == results[Len(results)]

\* C2: every record run_benchmark returns is in exactly one of the classes
\* normal completion (both metrics integers), timeout (success false, both
\* metrics "timeout") and invocation error (success false, both metrics the
\* same string that begins with "error: "), the class being that of what the
\* call did; success = true never comes with a sentinel metric.
C2_ThreeOutcomeClasses ==
  /\ \A i \in 1..Len(results) :
       /\ Cardinality(ClassesOf(results[i])) = 1
       /\ results[i].success => NormalRecord(results[i])
  /\ results # << >> =>
       ClassesOf(LastRecord) =
         { CASE outcome.kind = "exit" -> "normal"
             [] outcome.kind = "timeout" -> "timeout"
             [] OTHER -> "error" }

\* a call that ran into the timeout has returned its record
C2_Witness ==
  /\ results # << >>
  /\ outcome.kind = "timeout"
  /\ TimeoutRecord(LastRecord)

\* the digits of the first line of a kind that carries a number
FirstDigitsOf(lines, kind) ==
  LET at == { i \in 1..Len(lines) :
                lines[i].kind = kind /\ lines[i].digits # << >> }
  IN  IF at = { } THEN << >>
      ELSE lines[CHOOSE i \in at : \A j \in at : i <= j].digits

\* the numbers the planner prints in this model
Printed(digits) ==
  CASE digits = << "4", "2" >> -> 42
    [] digits = << "0", "0", "7" >> -> 7
    [] digits = << "7" >> -> 7
    [] digits = << "1", "0" >> -> 10
    [] OTHER -> 0

\* C3: when the planner process ends by itself, success is true exactly when
\* stdout holds "Goal reached", whatever the exit code and stderr;
\* expanded_nodes is the integer of the first "<integer> Nodes expanded" and
\* plan_length that of the first "Plan length: <integer>", each 0 when its
\* pattern is absent.
C3_NormalCompletionParsesStdout ==
  (results # << >> /\ outcome.kind = "exit") =>
    /\ LastRecord.success =
         (\E i \in 1..Len(outcome.lines) : outcome.lines[i].kind = "goal")
    /\ LastRecord.expanded_nodes =
         IntMetric(Printed(FirstDigitsOf(outcome.lines, "nodes")))
    /\ LastRecord.plan_length =
         IntMetric(Printed(FirstDigitsOf(outcome.lines, "length")))

\* the planner printed a plan length, a node count and the goal marker, ended
\* with exit code 1, and the record has success, 42 nodes and length 7
C3_Witness ==
  /\ results # << >>
  /\ outcome.kind = "exit"
  /\ outcome.returncode = 1
  /\ outcome.lines = << Line("length", << "7" >>),
                        Line("nodes", << "4", "2" >>), Line("goal", << >>) >>
  /\ LastRecord.success
  /\ LastRecord.expanded_nodes = IntMetric(42)
  /\ LastRecord.plan_length = IntMetric(7)

\* How far the loops of main are: directory, problem, search, heuristic.
Position ==
  CASE pc = "start" -> << 0, 0, 0, 0 >>
    [] pc = "dir" -> << di, 0, 0, 0 >>
    [] pc = "problem" -> << di, pi, 0, 0 >>
    [] pc \in { "combo", "running" } -> << di, pi, si, hi >>
    [] OTHER -> << di + 1, 0, 0, 0 >>

LexLess(a, b) ==
  \E k \in 1..4 : a[k] < b[k] /\ \A j \in 1..(k - 1) : a[j] = b[j]

\* the directories to walk are in the order the benchmark directory lists
\* them
InListingOrder(dirs, t) ==
  \A i, j \in 1..Len(dirs) :
    i < j =>
      \E a, b \in 1..Len(t.subdirs) :
        /\ a < b
        /\ t.subdirs[a].name = dirs[i].base
        /\ t.subdirs[b].name = dirs[j].base

\* C8: the result sequence only grows at its end, each record being that of
\* the directory, problem, search and heuristic the loops are at; the loops
\* only move forward through the directories in listing order, the problems
\* in sorted order and the searches and heuristics in the order given, so
\* the records are in traversal order; no record is changed or removed, and
\* the rows written are the records in this order.
C8_AppendOnlyInTraversalOrder ==
  [][/\ Position' = Position \/ LexLess(Position, Position')
     /\ Len(results') >= Len(results)
     /\ SubSeq(results', 1, Len(results)) = results
     /\ results' # results =>
          /\ pc = "running"
          /\ LexLess(Position, Position')
          /\ Len(results') = Len(results) + 1
          /\ results'[Len(results')].domain = Label(domain_file.name)
          /\ results'[Len(results')].problem = Label(problem_files[pi])
          /\ results'[Len(results')].search = args.searches[si]
          /\ results'[Len(results')].heuristic = args.heuristics[hi]
     /\ pc # "start" => (args' = args /\ domain_dirs' = domain_dirs)
     /\ pc = "start" => InListingOrder(domain_dirs', tree)
     /\ pc # "dir" => problem_files' = problem_files
     /\ InProblemOrder(problem_files')
     /\ pc \in { "combo", "running" } => domain_file' = domain_file
     /\ csv' # csv => (csv'.rows = results /\ results' = results)]_vars

\* two directories with one problem each were walked, two runs per problem,
\* and the four rows are written
C8_Witness ==
  /\ pc = "done"
  /\ csv.written
  /\ Len(domain_dirs) = 2
  /\ Len(csv.rows) = 4
  /\ csv.rows[2].problem # csv.rows[3].problem
  /\ csv.rows[1].search # csv.rows[2].search

\* the combinations of the cross-product that are to be run, as index pairs
ToRun ==
  { c \in (1..Len(args.searches)) \X (1..Len(args.heuristics)) :
      \/ args.test_invalid
      \/ args.heuristics[c[2]] # "blind"
      \/ args.searches[c[1]] = "astar" }

\* C9: without --test-invalid no record is produced and no planner is
\* started for blind with a search other than astar, and every other
\* combination of searches x heuristics is run for a resolved problem; with
\* --test-invalid every combination is run.
C9_InvalidCombinationsSkipped ==
  /\ ~args.test_invalid =>
       /\ \A i \in 1..Len(results) :
            ~(results[i].heuristic = "blind" /\ results[i].search # "astar")
       /\ pc = "running" =>
            ~(args.heuristics[hi] = "blind" /\ args.searches[si] # "astar")
  /\ (pc = "combo" /\ si > Len(args.searches)) =>
       /\ Len(results) >= Cardinality(ToRun)
       /\ \A c \in ToRun :
            \E i \in (Len(results) - Cardinality(ToRun) + 1)..Len(results) :
              /\ results[i].problem = Label(problem_files[pi])
              /\ results[i].search = args.searches[c[1]]
              /\ results[i].heuristic = args.heuristics[c[2]]

\* astar, gbf x blind, hmax without --test-invalid: the loops are through
\* with a problem and three records were appended, none for gbf with blind
C9_Witness ==
  /\ ~args.test_invalid
  /\ pc = "combo"
  /\ si > Len(args.searches)
  /\ Len(args.searches) = 2
  /\ Len(args.heuristics) = 2
  /\ Len(results) = 3

\* C10: at most one planner process is in flight: when run_benchmark has
\* returned, also after a timeout, its process is gone, and only then is the
\* next one started.
C10_OnePlannerAtATime ==
  /\ alive \in { 0, 1 }
  /\ alive = 1 <=> pc = "running"

\* a run has timed out and the next planner process is running
C10_Witness ==
  /\ results # << >>
  /\ outcome.kind = "timeout"
  /\ pc = "running"
  /\ alive = 1

\* the problem files main takes from a directory (lines 252-271)
Taken(d) ==
  Truncate(SortProblems(find_problem_files(d.listing)), args.max_problems)

\* the indices of the names whose domain file is found in directory d
ResolvedAmong(d, names) ==
  { i \in 1..Len(names) : find_domain_file_for_problem(d, names[i]) # NoPath }

\* the resolved problems of the first k directories
RECURSIVE ResolvedInDirs(_)
ResolvedInDirs(k) ==
  IF k = 0 THEN 0
  ELSE ResolvedInDirs(k - 1)
       + Cardinality(ResolvedAmong(domain_dirs[k], Taken(domain_dirs[k])))

\* main is inside `for problem_file in problem_files`
InProblemLoop ==
  \/ pc \in { "problem", "combo", "running" }
  \/ pc = "crashed" /\ exc = "NameError"

\* the runs that are due by now: every surviving combination of every
\* resolved problem the loops are through with, and the surviving
\* combinations of the current problem that come before the current one
RunsDue ==
  Cardinality(ToRun)
    * (ResolvedInDirs(IF di - 1 < Len(domain_dirs) THEN di - 1
                      ELSE Len(domain_dirs))
       + (IF InProblemLoop
          THEN Cardinality({ i \in ResolvedAmong(domain_dirs[di], problem_files) :
                               i < pi })
          ELSE 0))
  + (IF pc \in { "combo", "running" }
     THEN Cardinality({ c \in ToRun :
                          c[1] < si \/ (c[1] = si /\ c[2] < hi) })
     ELSE 0)

\* C11: for every resolved problem and every surviving combination the
\* planner is started exactly once and exactly one record is appended,
\* whatever the run did: the number of records is at every moment the number
\* of runs due; a planner is started only for a surviving combination of a
\* resolved problem, and such a combination is always started; when the call
\* returns, one record of the class of what it did is appended, the loops are
\* at the next combination (no retry) and no exception has ended the batch.
C11_OneRunOneRecord ==
  /\ [](Len(results) = RunsDue)
  /\ [][/\ alive' > alive =>
            /\ pc = "combo"
            /\ << si, hi >> \in ToRun
            /\ domain_file # NoPath
            /\ alive' = alive + 1
            /\ results' = results
        /\ (pc = "combo" /\ si <= Len(args.searches)
              /\ << si, hi >> \in ToRun) =>
            (pc' = "running" /\ alive' = alive + 1)
        /\ pc = "running" =>
            /\ Len(results') = Len(results) + 1
            /\ SubSeq(results', 1, Len(results)) = results
            /\ ClassesOf(results'[Len(results')]) =
                 { CASE outcome'.kind = "exit" -> "normal"
                     [] outcome'.kind = "timeout" -> "timeout"
                     [] OTHER -> "error" }
            /\ alive' = alive - 1
            /\ << si', hi' >> # << si, hi >>
            /\ LexLess(Position, Position')
            /\ pc' = "combo"
            /\ exc' = ""]_vars

\* a batch over two directories is written whose first run timed out and
\* whose second could not be started, and the runs after them completed
C11_Witness ==
  /\ pc = "done"
  /\ csv.written
  /\ Len(domain_dirs) = 2
  /\ Len(results) = 4
  /\ TimeoutRecord(results[1])
  /\ ErrorRecord(results[2])
  /\ NormalRecord(results[3])
  /\ results[4].problem # results[1].problem

\* the columns of the dataset
Columns ==
  << "domain", "problem", "search", "heuristic", "success", "runtime",
     "expanded_nodes", "plan_length" >>

\* C12: every record of a batch, whatever its outcome class, has exactly the
\* fields domain, problem, search, heuristic, success, runtime,
\* expanded_nodes, plan_length, in this order; the file written has these
\* columns in this order as its header, taken from the first record, and one
\* row per record, and writing it never raises for a missing or extra field.
C12_OneSchema ==
  /\ \A i \in 1..Len(results) :
       /\ DOMAIN results[i] = Range(Columns)
       /\ Keys(results[i]) = Columns
  /\ exc # "ValueError"
  /\ csv.written =>
       /\ csv.header = Columns
       /\ csv.header = Keys(results[1])
       /\ csv.rows = results

\* a file is written whose first record is a timeout and which holds a
\* normal and an error record as well
C12_Witness ==
  /\ csv.written
  /\ TimeoutRecord(csv.rows[1])
  /\ \E i \in 1..Len(csv.rows) : NormalRecord(csv.rows[i])
  /\ \E i \in 1..Len(csv.rows) : ErrorRecord(csv.rows[i])

\* the files of a listing that are problem files by their first 2000
\* characters
MarkedAsProblem(listing) ==
  { i \in 1..Len(listing) :
      /\ EndsWith(listing[i].name, Ext)
      /\ listing[i].text.readable
      /\ listing[i].text.goal = "prefix"
      /\ listing[i].text.define
      /\ listing[i].text.problem }

\* C13: a .pddl file is taken as a problem file exactly when its first 2000
\* characters hold "(:goal", "(define" and "problem"; a file that cannot be
\* read counts as no problem file and raises nothing, so whatever a directory
\* holds, classifying its files ends without an exception: the directory is
\* passed over when it has no problem file, and else its problem files are
\* those files (as many as --max-problems allows), unless their sort raises.
C13_ClassificationNeverAborts ==
  [][(pc = "dir" /\ di <= Len(domain_dirs)) =>
       LET listing == domain_dirs[di].listing
           marked == { listing[i].name : i \in MarkedAsProblem(listing) }
       IN  IF marked = { }
           THEN pc' = "dir" /\ di' = di + 1 /\ exc' = ""
           ELSE \/ /\ pc' = "problem"
                   /\ exc' = ""
                   /\ Range(problem_files') \subseteq marked
                   /\ Len(problem_files') =
                        (IF args.max_problems < Cardinality(marked)
                         THEN args.max_problems ELSE Cardinality(marked))
                \/ /\ pc' = "crashed"
                   /\ exc' = "TypeError"
                   /\ \E m, n \in marked :
                        FirstNumber(m) = << >> /\ FirstNumber(n) # << >>]_vars

\* a directory with an unreadable file, a problem whose goal comes late and
\* a problem file: the problem file alone is taken
C13_Witness ==
  /\ pc = "problem"
  /\ Len(domain_dirs[1].listing) = 3
  /\ \E i \in 1..3 : ~domain_dirs[1].listing[i].text.readable
  /\ \E i \in 1..3 : domain_dirs[1].listing[i].text.goal = "late"
  /\ Len(problem_files) = 1

\* the fields of a record other than runtime
NonTiming(r) ==
  << r.domain, r.problem, r.search, r.heuristic, r.success, r.expanded_nodes,
     r.plan_length >>

Candidates(name) ==
  IF name = << >> THEN { }
  ELSE IF name \in { W_blocksworld, W_blockworld }
       THEN { W_blocksworld, W_blockworld }
       ELSE { name }

\* the conventional file names of a directory called base, in their order
ConventionalNames(base) ==
  << W_domain \o Ext,
     << "*" >> \o W_domain \o << "*" >> \o Ext,
     << "*", "." >> \o W_domain \o Ext,
     base \o Ext >>

\* C15: the layers are tried in order and the first that matches decides:
\* a file named after the declared name or its synonym in the problem's
\* directory; else a file of that directory matching the first of domain.pddl,
\* *domain*.pddl, *.domain.pddl, <directory basename>.pddl that matches
\* anything; else a .pddl file of that directory other than the problem with
\* ":action" and no "(:goal"; else a file of the parent directory with a
\* conventional or the declared name; and no path only when none of these
\* exists.
C15_LayersInOrder ==
  ResolverReturned =>
    LET d == domain_dirs[1]
        byName == { c \o Ext : c \in Candidates(Declared) }
                    \cap Range(Names(d.listing))
        conv == ConventionalNames(d.base)
        hits(k) == Range(Glob(d.listing, conv[k]))
        first == { k \in 1..Len(conv) :
                     hits(k) # { } /\ \A j \in 1..(k - 1) : hits(j) = { } }
        scanned == { n \in Range(Glob(d.listing, << "*" >> \o Ext)) :
                       /\ n # problem_files[1]
                       /\ TextOf(d.listing, n).readable
                       /\ TextOf(d.listing, n).action
                       /\ TextOf(d.listing, n).goal = "none" }
        above == UNION { Range(Glob(d.parent, conv[k])) : k \in 1..Len(conv) }
                   \cup (IF Declared # << >>
                         THEN Range(Glob(d.parent, Declared \o Ext))
                         ELSE { })
    IN  IF byName # { }
        THEN domain_file.where = "dir" /\ domain_file.name \in byName
        ELSE IF first # { }
        THEN /\ domain_file.where = "dir"
             /\ \E k \in first : domain_file.name \in hits(k)
        ELSE IF scanned # { }
        THEN domain_file.where = "dir" /\ domain_file.name \in scanned
        ELSE IF above # { }
        THEN domain_file.where = "parent" /\ domain_file.name \in above
        ELSE domain_file = NoPath

\* in a directory d with x.domain.pddl and d.pddl, and domain.pddl in the
\* parent, a problem that declares no file of the directory resolves to
\* x.domain.pddl
C15_Witness ==
  /\ pc = "combo"
  /\ domain_dirs[1].base = W_d
  /\ \A c \in Candidates(Declared) : ~InDir(c)
  /\ InDir(W_xdomain)
  /\ InDir(W_d)
  /\ InParent(W_domain)
  /\ domain_file = Path("dir", W_xdomain \o Ext)

C17_NeverTheProblemItself ==
  (ResolverReturned /\ domain_file # NoPath) =>
    /\ domain_file.where \in { "dir", "parent" }
    /\ domain_file.where = "dir" =>
         /\ Exists(domain_dirs[1].listing, domain_file.name)
         /\ domain_file.name # problem_files[1]
    /\ domain_file.where = "parent" =>
         Exists(domain_dirs[1].parent, domain_file.name)

\* C18: while main is in a directory, problem_files is the first
\* --max-problems problem files of the directory in sorted order (all of them
\* when there are fewer): no problem file left out sorts before one that is
\* kept; the planner runs only for a problem of this prefix; and the prefix
\* stays as it is while the directory is walked, so a problem passed over
\* for want of a domain file is not replaced by a later one.
C18_SortedPrefixOnly ==
  /\ [](pc \in { "problem", "combo", "running" } =>
          LET listing == domain_dirs[di].listing
              marked == { listing[i].name : i \in MarkedAsProblem(listing) }
              kept == Range(problem_files)
          IN  /\ Len(problem_files) =
                   (IF args.max_problems < Cardinality(marked)
                    THEN args.max_problems ELSE Cardinality(marked))
              /\ Cardinality(kept) = Len(problem_files)
              /\ kept \subseteq marked
              /\ InProblemOrder(problem_files)
              /\ \A t \in kept, o \in marked \ kept :
                   ~KeyLess(problem_sort_key(o), problem_sort_key(t))
              /\ pc = "running" =>
                   (pi <= args.max_problems /\ pi <= Len(problem_files)))
  /\ [][pc # "dir" => problem_files' = problem_files]_vars

\* --max-problems 1 in a directory with pb10.pddl and pb2.pddl and no domain
\* file: pb2 was passed over, pb10 was not looked at, and the batch ended
\* without a record
C18_Witness ==
  /\ pc = "done"
  /\ exc = ""
  /\ args.max_problems = 1
  /\ Len(domain_dirs) = 1
  /\ Names(domain_dirs[1].listing) =
       << W_pb \o << "1", "0" >> \o Ext, W_pb2 \o Ext >>
  /\ problem_files = << W_pb2 \o Ext >>
  /\ pi = 2
  /\ results = << >>

====
